---- MODULE Spec2Model ----
(***************************************************************************)
(* Model of the template parameter engine of aoc-runtime:                  *)
(*   Config::load   (src/src/config.rs) builds an extraction pattern from  *)
(*                  the template path and applies it to the working        *)
(*                  directory,                                             *)
(*   Args::build    (src/src/args.rs) resolves year, day and language,     *)
(*   Config::build  (src/src/config.rs) renders the project path.          *)
(*                                                                         *)
(* A text (template path, working directory, rendered path) is a sequence  *)
(* of items.  An item is a one-character string, or the whole text of a    *)
(* placeholder marker ("{{year}}", "{{ pad   day }}", ...).  A pattern is  *)
(* a sequence of regex fragments: an escaped or plain character, a named   *)
(* capture group, "(" or ")?".                                             *)
(***************************************************************************)
EXTENDS Integers, Sequences, FiniteSets, TLC

VARIABLES template_path, cwd, today, cli, args, optional_params, pattern,
          project_path, pc, error

vars == <<template_path, cwd, today, cli, args, optional_params, pattern,
          project_path, pc, error>>

(***************************************************************************)
(* Option<T>: None is the empty sequence, Some(v) the one-element one.     *)
(***************************************************************************)
None == <<>>

Some(v) == <<v>>

IsSome(o) == o # None

Unwrap(o) == o[1]

Or(a, b) == IF IsSome(a) THEN a ELSE b

(***************************************************************************)
(* Language (args.rs): the enum in declaration order, its Debug name,      *)
(* Display (lowercased Debug name) and FromStr (case-insensitive lookup).  *)
(***************************************************************************)
Language == <<"Rust", "CSharp", "Java", "Python">>

DebugName(lang) ==
    CASE lang = "Rust"   -> <<"R", "u", "s", "t">>
      [] lang = "CSharp" -> <<"C", "S", "h", "a", "r", "p">>
      [] lang = "Java"   -> <<"J", "a", "v", "a">>
      [] lang = "Python" -> <<"P", "y", "t", "h", "o", "n">>

to_lowercase_char(c) ==
    CASE c = "A" -> "a" [] c = "C" -> "c" [] c = "H" -> "h" [] c = "J" -> "j"
      [] c = "P" -> "p" [] c = "R" -> "r" [] c = "S" -> "s" [] c = "T" -> "t"
      [] c = "U" -> "u" [] c = "V" -> "v"
      [] OTHER -> c

to_lowercase(s) == [i \in 1..Len(s) |-> to_lowercase_char(s[i])]

Language_to_string(lang) == to_lowercase(DebugName(lang))

RECURSIVE Language_from_str_at(_, _)
Language_from_str_at(s, i) ==
    IF i > Len(Language) THEN None
    ELSE IF Language_to_string(Language[i]) = to_lowercase(s) THEN Some(Language[i])
    ELSE Language_from_str_at(s, i + 1)

Language_from_str(s) == Language_from_str_at(s, 1)

(***************************************************************************)
(* Integers as text: u16/u8 to_string and str::parse.                      *)
(***************************************************************************)
Digits == <<"0", "1", "2", "3", "4", "5", "6", "7", "8", "9">>

DigitSet == {Digits[i] : i \in 1..10}

DigitVal(c) == (CHOOSE i \in 1..10 : Digits[i] = c) - 1

RECURSIVE int_to_string(_)
int_to_string(n) ==
    IF n < 10 THEN <<Digits[n + 1]>>
    ELSE Append(int_to_string(n \div 10), Digits[(n % 10) + 1])

RECURSIVE DecValue(_)
DecValue(s) ==
    IF Len(s) = 0 THEN 0
    ELSE 10 * DecValue(SubSeq(s, 1, Len(s) - 1)) + DigitVal(s[Len(s)])

U16Max == 65535

U8Max == 255

\* m.as_str().parse().ok(): None unless s is a decimal numeral that fits
parse_int(s, max) ==
    IF Len(s) > 0 /\ (\A i \in 1..Len(s) : s[i] \in DigitSet) /\ DecValue(s) <= max
    THEN Some(DecValue(s))
    ELSE None

\* format!("{:0>2}", value)
PadWidth == 2

RECURSIVE pad_left_zero(_)
pad_left_zero(value) ==
    IF Len(value) >= PadWidth THEN value ELSE pad_left_zero(<<"0">> \o value)

(***************************************************************************)
(* Placeholder markers.  build_param_regex(param, paddable) is             *)
(*   \{\{\s*(pad\s+)?param\s*\}\}     (the group only when paddable);      *)
(* it is modelled by the set of marker texts it matches.  MarkerPad tells  *)
(* whether its group 1 (pad\s+) took part in the match.                    *)
(***************************************************************************)
MarkerTexts == {"{{year}}", "{{day}}", "{{pad day}}", "{{language}}",
                "{{  year  }}", "{{ day }}", "{{ pad   day }}", "{{ language }}"}

MarkerName(m) ==
    CASE m \in {"{{year}}", "{{  year  }}"} -> "year"
      [] m \in {"{{day}}", "{{ day }}", "{{pad day}}", "{{ pad   day }}"} -> "day"
      [] m \in {"{{language}}", "{{ language }}"} -> "language"

MarkerPad(m) == m \in {"{{pad day}}", "{{ pad   day }}"}

build_param_regex(param, paddable) ==
    {m \in MarkerTexts : MarkerName(m) = param /\ (MarkerPad(m) => paddable)}

\* the three (name, paddable) pairs both Config::load and Config::build walk
Params == <<[name |-> "year", paddable |-> FALSE],
            [name |-> "day", paddable |-> TRUE],
            [name |-> "language", paddable |-> FALSE]>>

(***************************************************************************)
(* regex::escape: a backslash before every regex meta character.           *)
(***************************************************************************)
RegexMeta == {"\\", ".", "+", "*", "?", "(", ")", "|", "[", "]", "{", "}",
              "^", "$", "#", "&", "-", "~"}

escape_none(c) == c

escape(c) == IF c \in RegexMeta THEN "\\" \o c ELSE c

(***************************************************************************)
(* Config::load, lines 57-134: the extraction pattern.                     *)
(***************************************************************************)
\* lines 62-73: the places of the template the three marker regexes match
regex_patterns_locations(t) ==
    {i \in 1..Len(t) :
        \E k \in 1..Len(Params) :
            t[i] \in build_param_regex(Params[k].name, Params[k].paddable)}

\* lines 75-92: literal text escaped, marker text pushed as it is
RECURSIVE escape_between(_, _, _)
escape_between(t, locations, i) ==
    IF i > Len(t) THEN <<>>
    ELSE <<IF i \in locations THEN t[i] ELSE escape(t[i])>>
            \o escape_between(t, locations, i + 1)

escaped_template(t) == escape_between(t, regex_patterns_locations(t), 1)

RECURSIVE concat(_)
concat(s) == IF Len(s) = 0 THEN "" ELSE Head(s) \o concat(Tail(s))

RECURSIVE join_languages(_)
join_languages(i) ==
    concat(Language_to_string(Language[i]))
        \o (IF i < Len(Language) THEN "|" \o join_languages(i + 1) ELSE "")

year_pattern == "(?P<year>\\d{4})"

day_pattern == "(?P<day>[1-9]|1[0-9]|2[0-5])"

padday_pattern == "(?P<padday>0[1-9]|1[0-9]|2[0-5])"

language_pattern == "(?P<language>" \o join_languages(1) \o ")"

\* lines 97-111
replacements ==
    <<[from |-> "{{year}}", to |-> year_pattern],
      [from |-> "{{day}}", to |-> day_pattern],
      [from |-> "{{pad day}}", to |-> padday_pattern],
      [from |-> "{{language}}", to |-> language_pattern]>>

Contains(p, item) == \E i \in 1..Len(p) : p[i] = item

\* str::replace: every occurrence of `from` becomes the fragments `to`
RECURSIVE replace(_, _, _)
replace(p, from, to) ==
    IF Len(p) = 0 THEN <<>>
    ELSE (IF Head(p) = from THEN to ELSE <<Head(p)>>) \o replace(Tail(p), from, to)

\* lines 113-133: the loop over replacements, then push_str(&end_pattern)
RECURSIVE insert_patterns(_, _, _)
insert_patterns(p, end_pattern, i) ==
    IF i > Len(replacements) THEN p \o end_pattern
    ELSE IF Contains(p, replacements[i].from)
    THEN insert_patterns(
            replace(p, replacements[i].from,
                    <<replacements[i].to>>
                        \o (IF i < Len(replacements) THEN <<"(">> ELSE <<>>)),
            end_pattern \o (IF i < Len(replacements) THEN <<")?">> ELSE <<>>),
            i + 1)
    ELSE insert_patterns(p, end_pattern, i + 1)

build_pattern(t) == insert_patterns(escaped_template(t), <<>>, 1)

(***************************************************************************)
(* The regex crate, for the fragments a pattern is made of.                *)
(* Regex::new refuses a pattern with a repetition "{" that has no count    *)
(* (the text of a marker left in the pattern), with unbalanced groups or   *)
(* with a group name used twice.  Regex::captures searches unanchored for  *)
(* the leftmost match and, at one start, prefers the earlier alternative   *)
(* and the taken optional group (leftmost-first).                          *)
(***************************************************************************)
D09 == DigitSet

D19 == DigitSet \ {"0"}

D05 == {"0", "1", "2", "3", "4", "5"}

Lit(s) == [i \in 1..Len(s) |-> {s[i]}]

CaptureItems == {year_pattern, day_pattern, padday_pattern,
                 "(?P<language>rust|csharp|java|python)"}

CaptureName(item) ==
    CASE item = year_pattern -> "year"
      [] item = day_pattern -> "day"
      [] item = padday_pattern -> "padday"
      [] OTHER -> "language"

\* the alternatives of a capture group in order, each a sequence of classes
CaptureAlts(item) ==
    CASE item = year_pattern -> << <<D09, D09, D09, D09>> >>
      [] item = day_pattern -> << <<D19>>, <<{"1"}, D09>>, <<{"2"}, D05>> >>
      [] item = padday_pattern ->
            << <<{"0"}, D19>>, <<{"1"}, D09>>, <<{"2"}, D05>> >>
      [] OTHER -> << Lit(<<"r", "u", "s", "t">>),
                     Lit(<<"c", "s", "h", "a", "r", "p">>),
                     Lit(<<"j", "a", "v", "a">>),
                     Lit(<<"p", "y", "t", "h", "o", "n">>) >>

Letters == {"a", "b", "c", "d", "e", "f", "g", "h", "i", "j", "k", "l", "m",
            "n", "o", "p", "q", "r", "s", "t", "u", "v", "w", "x", "y", "z",
            "A", "C", "H", "J", "P", "R", "S", "T", "U", "V"}

PlainChars == Letters \cup DigitSet \cup {"/", " "}

EscapedChars == {"\\" \o c : c \in RegexMeta}

LiteralItems == EscapedChars \cup PlainChars \cup {"-"}

ItemKind(item) ==
    CASE item = "(" -> "open"
      [] item = ")?" -> "close_opt"
      [] item = ")" -> "close"
      [] item = "." -> "any"
      [] item \in CaptureItems -> "capture"
      [] item \in LiteralItems -> "literal"
      [] OTHER -> "invalid"

LitChar(item) ==
    IF item \in EscapedChars THEN CHOOSE c \in RegexMeta : item = "\\" \o c
    ELSE item

RECURSIVE Kinds(_)
Kinds(p) == IF Len(p) = 0 THEN <<>> ELSE <<ItemKind(Head(p))>> \o Kinds(Tail(p))

Closers == {"close", "close_opt"}

\* group depth after each fragment, given the depth before the first
RECURSIVE Depths(_, _)
Depths(kinds, depth) ==
    IF Len(kinds) = 0 THEN <<>>
    ELSE LET d == CASE Head(kinds) = "open" -> depth + 1
                    [] Head(kinds) \in Closers -> depth - 1
                    [] OTHER -> depth
         IN <<d>> \o Depths(Tail(kinds), d)

Balanced(kinds) ==
    LET depths == Depths(kinds, 0) IN
    /\ \A i \in 1..Len(depths) : depths[i] >= 0
    /\ Len(depths) > 0 => depths[Len(depths)] = 0

\* for the group opened at i the place of the ")" or ")?" that closes it
CloseOf(kinds, depths, i) ==
    CHOOSE j \in (i + 1)..Len(kinds) :
        /\ depths[j] = depths[i] - 1
        /\ \A h \in (i + 1)..(j - 1) : depths[h] >= depths[i]

RECURSIVE CloseTable(_, _, _)
CloseTable(kinds, depths, i) ==
    IF i > Len(kinds) THEN <<>>
    ELSE <<IF kinds[i] = "open" THEN CloseOf(kinds, depths, i) ELSE 0>>
            \o CloseTable(kinds, depths, i + 1)

Regex_new_ok(p) ==
    LET kinds == Kinds(p) IN
    /\ \A i \in 1..Len(p) : kinds[i] # "invalid"
    /\ Balanced(kinds)
    /\ \A i, j \in 1..Len(p) :
          (i # j /\ kinds[i] = "capture" /\ kinds[j] = "capture")
              => CaptureName(p[i]) # CaptureName(p[j])

\* the compiled program: the fragments, their kinds and the group ends
Regex_new(p) ==
    LET kinds == Kinds(p) IN
    [items |-> p, kinds |-> kinds, close |-> CloseTable(kinds, Depths(kinds, 0), 1)]

NoCaptures == [year |-> None, day |-> None, padday |-> None, language |-> None]

NoMatch == [ok |-> FALSE, caps |-> NoCaptures]

AltMatches(alt, s, pos) ==
    /\ pos + Len(alt) - 1 <= Len(s)
    /\ \A k \in 1..Len(alt) : s[pos + k - 1] \in alt[k]

OrElse(first, second) == IF first.ok THEN first ELSE second

RECURSIVE match_from(_, _, _, _, _)
RECURSIVE match_alts(_, _, _, _, _, _)
match_from(re, s, i, pos, caps) ==
    IF i > Len(re.items) THEN [ok |-> TRUE, caps |-> caps]
    ELSE LET kind == re.kinds[i] IN
         CASE kind = "literal" ->
                IF pos <= Len(s) /\ s[pos] = LitChar(re.items[i])
                THEN match_from(re, s, i + 1, pos + 1, caps) ELSE NoMatch
           [] kind = "any" ->
                IF pos <= Len(s)
                THEN match_from(re, s, i + 1, pos + 1, caps) ELSE NoMatch
           [] kind = "capture" -> match_alts(re, s, i, pos, caps, 1)
           [] kind = "open" ->
                IF re.kinds[re.close[i]] = "close"
                THEN match_from(re, s, i + 1, pos, caps)
                ELSE OrElse(match_from(re, s, i + 1, pos, caps),
                            match_from(re, s, re.close[i] + 1, pos, caps))
           [] OTHER -> match_from(re, s, i + 1, pos, caps)

match_alts(re, s, i, pos, caps, k) ==
    IF k > Len(CaptureAlts(re.items[i])) THEN NoMatch
    ELSE LET alt == CaptureAlts(re.items[i])[k] IN
         IF AltMatches(alt, s, pos)
         THEN OrElse(match_from(re, s, i + 1, pos + Len(alt),
                        [caps EXCEPT ![CaptureName(re.items[i])] =
                            Some(SubSeq(s, pos, pos + Len(alt) - 1))]),
                     match_alts(re, s, i, pos, caps, k + 1))
         ELSE match_alts(re, s, i, pos, caps, k + 1)

RECURSIVE captures_at(_, _, _)
captures_at(re, s, start) ==
    IF start > Len(s) + 1 THEN NoMatch
    ELSE OrElse(match_from(re, s, 1, start, NoCaptures), captures_at(re, s, start + 1))

Regex_captures(re, s) == captures_at(re, s, 1)

(***************************************************************************)
(* Config::load, lines 138-156: the captures parsed into                   *)
(* OptionalParameters.  A capture that is absent, or whose text does not   *)
(* parse, gives None.                                                      *)
(***************************************************************************)
NoParams == [year |-> None, day |-> None, language |-> None]

parse_capture_int(m, max) == IF IsSome(m) THEN parse_int(Unwrap(m), max) ELSE None

extract(p, s) ==
    LET captures == Regex_captures(Regex_new(p), s) IN
    IF ~captures.ok THEN NoParams
    ELSE [year |-> parse_capture_int(captures.caps.year, U16Max),
          day |-> parse_capture_int(Or(captures.caps.day, captures.caps.padday), U8Max),
          language |-> IF IsSome(captures.caps.language)
                       THEN Language_from_str(Unwrap(captures.caps.language))
                       ELSE None]

(***************************************************************************)
(* Args::build (args.rs 174-185) and the clap ranges of Args (143-159).    *)
(***************************************************************************)
December == 12

FirstYear == 2015

FirstDay == 1

LastDay == 25

\* Local::now().year() - (Local::now().month() < 12)
current_year(now) == now.year - (IF now.month < December THEN 1 ELSE 0)

\* if Local::now().month() == 12 { Local::now().day() } else { 1 }
current_day(now) == IF now.month = December THEN now.day ELSE 1

or_inferred_first(explicit, inferred, default) == Or(Or(inferred, explicit), Some(default))

\* self.x.or(optional_parameters.x).or(Some(default))
resolve(explicit, inferred, default) == Or(Or(explicit, inferred), Some(default))

Args_build(self, optional_parameters, now) ==
    [year |-> resolve(self.year, optional_parameters.year, current_year(now)),
     day |-> resolve(self.day, optional_parameters.day, current_day(now)),
     language |-> Or(self.language, optional_parameters.language)]

(***************************************************************************)
(* Config::build (config.rs 162-200).                                      *)
(***************************************************************************)
MapOpt_int(o) == IF IsSome(o) THEN Some(int_to_string(Unwrap(o))) ELSE None

MapOpt_language(o) == IF IsSome(o) THEN Some(Language_to_string(Unwrap(o))) ELSE None

\* lines 165-173: (name, value, paddable) in the order the loop takes them
build_values(a) ==
    <<MapOpt_int(a.year), MapOpt_int(a.day), MapOpt_language(a.language)>>

\* re.captures(&path): the leftmost match, 0 when there is none
first_match(re, path) ==
    IF \E i \in 1..Len(path) : path[i] \in re
    THEN CHOOSE i \in 1..Len(path) :
            path[i] \in re /\ \A j \in 1..(i - 1) : path[j] \notin re
    ELSE 0

\* re.replace_all(&path, text)
RECURSIVE replace_all(_, _, _)
replace_all(re, path, text) ==
    IF Len(path) = 0 THEN <<>>
    ELSE (IF Head(path) \in re THEN text ELSE <<Head(path)>>)
            \o replace_all(re, Tail(path), text)

\* lines 182-191: the text put in place of the marker
substitute_never_padded(captured_pad, value) == value

substitute(captured_pad, value) ==
    IF captured_pad THEN pad_left_zero(value) ELSE value

RECURSIVE build_from(_, _, _)
build_from(path, values, k) ==
    IF k > Len(Params) THEN [ok |-> TRUE, path |-> path, missing |-> ""]
    ELSE IF ~IsSome(values[k]) THEN build_from(path, values, k + 1)
    ELSE LET re == build_param_regex(Params[k].name, Params[k].paddable)
             first == first_match(re, path)
         IN IF first = 0
            THEN [ok |-> FALSE, path |-> path, missing |-> Params[k].name]
            ELSE build_from(
                    replace_all(re, path,
                                substitute(MarkerPad(path[first]), Unwrap(values[k]))),
                    values, k + 1)

Config_build(template, a) == build_from(template, build_values(a), 1)

(***************************************************************************)
(* Inputs: template paths of the configuration file, calendar dates,       *)
(* command-line arguments and working directories.                         *)
(***************************************************************************)
MaxMarkers == 3

CanonicalMarkers == {"{{year}}", "{{day}}", "{{pad day}}", "{{language}}"}

RECURSIVE JoinMarkers(_, _)
JoinMarkers(f, n) ==
    IF n = 1 THEN <<f[1]>> ELSE JoinMarkers(f, n - 1) \o <<"/", f[n]>>

\* every sequence of 1..MaxMarkers canonical markers, "/" between them
MarkerTemplates ==
    UNION {{JoinMarkers(f, n) : f \in [1..n -> CanonicalMarkers]} : n \in 1..MaxMarkers}

Code == <<"c", "o", "d", "e">>

EndToEndTemplate ==
    Code \o <<"/", "{{year}}", "/", "d", "a", "y", "{{pad day}}", "/", "{{language}}">>

ProjectsTemplate ==
    <<"p", "/", "{{year}}", "/", "{{day}}", "-", "{{language}}">>

ArchiveTemplate ==
    <<"a", "r", "c", "h", "i", "v", "e", " ", "(", "{{year}}", ")", "/", "{{day}}">>

DottedTemplate == <<"{{year}}", ".", "{{pad day}}", ".", "{{language}}">>

PadYear == <<"{", "{", "p", "a", "d", " ", "y", "e", "a", "r", "}", "}">>

PadLanguage ==
    <<"{", "{", "p", "a", "d", " ", "l", "a", "n", "g", "u", "a", "g", "e", "}", "}">>

RepeatedTemplate ==
    <<"{{year}}", "/", "a", "o", "c", "-", "{{year}}", "/", "{{day}}">>

ExampleTemplates ==
    {EndToEndTemplate, ProjectsTemplate, ArchiveTemplate, DottedTemplate,
     RepeatedTemplate,
     <<"{{  year  }}", "/", "{{day}}", "/", "{{language}}">>,
     <<"{{year}}", "/", "{{ pad   day }}", "/", "{{language}}">>,
     <<"{{year}}", "/", "{{ day }}", "/", "{{ language }}">>,
     PadYear \o <<"/", "{{day}}">>,
     <<"{{year}}", "/", "{{day}}", "/">> \o PadLanguage,
     <<"{{year}}", "/">> \o PadYear \o <<"/", "{{day}}", "/", "{{language}}">>}

Templates == MarkerTemplates \cup ExampleTemplates

Dates == {[year |-> 2024, month |-> 11, day |-> 30],
          [year |-> 2024, month |-> 12, day |-> 3],
          [year |-> 2024, month |-> 12, day |-> 26]}

ExplicitYears == {2023}

ExplicitDays == {12}

ExplicitLanguages == {"Java"}

Options(S) == {None} \cup {Some(v) : v \in S}

\* texts a directory name may hold where the template has a marker
YearTexts == {<<"2", "0", "2", "2">>}

DayTexts == {<<"5">>, <<"0", "5">>, <<"1", "2">>, <<"2", "6">>}

LanguageTexts == {<<"r", "u", "s", "t">>, <<"R", "u", "s", "t">>, <<"J", "A", "V", "A">>}

ValueTexts == [year : YearTexts, day : DayTexts, language : LanguageTexts]

RECURSIVE Fill(_, _)
Fill(t, texts) ==
    IF Len(t) = 0 THEN <<>>
    ELSE (IF Head(t) \in MarkerTexts THEN texts[MarkerName(Head(t))] ELSE <<Head(t)>>)
            \o Fill(Tail(t), texts)

\* the template up to and including one of its markers, and the whole of it
Prefixes(t) == {SubSeq(t, 1, k) : k \in {i \in 1..Len(t) : t[i] \in MarkerTexts}} \cup {t}

Drop(t, i) == SubSeq(t, 1, i - 1) \o SubSeq(t, i + 1, Len(t))

\* the template with one meta character of its literal text dropped or changed
Mangled(t) ==
    UNION {{Drop(t, i), [t EXCEPT ![i] = "x"]} : i \in {j \in 1..Len(t) : t[j] \in RegexMeta}}

ElsewhereDirs == {<<"/", "h", "o", "m", "e">>}

Candidates(t) ==
    {Fill(q, v) : q \in Prefixes(t) \cup Mangled(t), v \in ValueTexts} \cup ElsewhereDirs

(***************************************************************************)
(* The run: Args::parse, Config::load, Args::build, Config::build, and a   *)
(* later Config::load from inside the project directory that was rendered. *)
(***************************************************************************)
Init ==
    /\ template_path \in Templates
    /\ cwd = <<>>
    /\ today = [year |-> 0, month |-> 0, day |-> 0]
    /\ cli = NoParams
    /\ args = NoParams
    /\ optional_params = NoParams
    /\ pattern = <<>>
    /\ project_path = <<>>
    /\ pc = "parse"
    /\ error = ""

\* Args::parse: the explicit arguments, inside the ranges clap enforces
ParseWith(dates, years, days, languages) ==
    /\ pc = "parse"
    /\ \E now \in dates, y \in Options(years), d \in Options(days), l \in Options(languages) :
          /\ IsSome(y) => Unwrap(y) \in FirstYear..current_year(now)
          /\ IsSome(d) => Unwrap(d) \in FirstDay..LastDay
          /\ today' = now
          /\ cli' = [year |-> y, day |-> d, language |-> l]
          /\ args' = [year |-> y, day |-> d, language |-> l]
    /\ pc' = "load"
    /\ UNCHANGED <<template_path, cwd, optional_params, pattern, project_path, error>>

Parse == ParseWith(Dates, ExplicitYears, ExplicitDays, ExplicitLanguages)

\* Config::load on working directory dir: Regex::new(&pattern)? comes first
LoadFrom(dir, next) ==
    /\ pattern' = build_pattern(template_path)
    /\ IF Regex_new_ok(pattern')
       THEN /\ cwd' = dir
            /\ optional_params' = extract(pattern', dir)
            /\ pc' = next
            /\ error' = error
       ELSE /\ pc' = "error"
            /\ error' = "regex parse error"
            /\ UNCHANGED <<cwd, optional_params>>
    /\ UNCHANGED <<template_path, today, cli, args, project_path>>

Load ==
    /\ pc = "load"
    /\ \E dir \in Candidates(template_path) : LoadFrom(dir, "args_build")

ArgsBuild ==
    /\ pc = "args_build"
    /\ args' = Args_build(args, optional_params, today)
    /\ pc' = "config_build"
    /\ UNCHANGED <<template_path, cwd, today, cli, optional_params, pattern,
                   project_path, error>>

ConfigBuild ==
    /\ pc = "config_build"
    /\ LET built == Config_build(template_path, args) IN
       IF built.ok
       THEN /\ project_path' = built.path
            /\ pc' = "done"
            /\ error' = error
       ELSE /\ pc' = "error"
            /\ error' = "failed to find '" \o built.missing \o "' in template path"
            /\ UNCHANGED project_path
    /\ UNCHANGED <<template_path, cwd, today, cli, args, optional_params, pattern>>

\* the tool run again from inside the project directory it rendered
LoadInProject ==
    /\ pc = "done"
    /\ LoadFrom(project_path, "reloaded")

Next == Parse \/ Load \/ ArgsBuild \/ ConfigBuild \/ LoadInProject

Spec == Init /\ [][Next]_vars

(***************************************************************************)
(* The end-to-end scenario of the specification: the one template          *)
(*   code/{{year}}/day{{pad day}}/{{language}}                             *)
(* with every day, every language and the first and the last year.         *)
(***************************************************************************)
EndToEndDates == {[year |-> 2024, month |-> 12, day |-> 3]}

EndToEndYears == {2015, 2024}

AllLanguages == {Language[i] : i \in 1..Len(Language)}

InitEndToEnd == Init /\ template_path = EndToEndTemplate

ParseEndToEnd == ParseWith(EndToEndDates, EndToEndYears, FirstDay..LastDay, AllLanguages)

NextEndToEnd == ParseEndToEnd \/ Load \/ ArgsBuild \/ ConfigBuild \/ LoadInProject

SpecEndToEnd == InitEndToEnd /\ [][NextEndToEnd]_vars

(***************************************************************************)
(* Properties.                                                             *)
(***************************************************************************)
\* the markers of a template
MarkerPlaces(t) == {i \in 1..Len(t) : t[i] \in MarkerTexts}

PlacesOf(t, name) == {i \in MarkerPlaces(t) : MarkerName(t[i]) = name}

CanonicalOnly(t) == \A i \in MarkerPlaces(t) : t[i] \in CanonicalMarkers

AtMostOnce(t) ==
    \A name \in {"year", "day", "language"} : Cardinality(PlacesOf(t, name)) <= 1

\* the working directory has been matched against the pattern
Loaded == pc = "args_build"

\* Args::build has run (and the directory read is still the first one)
Resolved ==
    \/ pc \in {"config_build", "done"}
    \/ pc = "error" /\ error # "regex parse error"

LoadFailed == pc = "error" /\ error = "regex parse error"

BuildFailed == pc = "error" /\ error # "regex parse error"

FullySpecified(a) ==
    /\ IsSome(a.year) /\ IsSome(a.day) /\ IsSome(a.language)
    /\ Unwrap(a.year) \in 1000..9999
    /\ Unwrap(a.day) \in 1..25

\* C1: round trip. For a template of literal text and canonical markers,
\* each placeholder at most once, and a fully specified value set, the
\* values extracted from the rendered path are the values rendered.
RoundTrip ==
    (/\ pc = "reloaded"
     /\ CanonicalOnly(template_path) /\ AtMostOnce(template_path)
     /\ FullySpecified(args))
        => optional_params = args

\* C9: source precedence in Args::build. Each of year, day and language is
\* the explicit argument when there is one, else the value inferred from
\* the working directory when there is one, else (year and day) the
\* date-based default; language stays absent when neither source has it,
\* and year and day are always present.
ExpectedDefaultYear == IF today.month = 12 THEN today.year ELSE today.year - 1

ExpectedDefaultDay == IF today.month = 12 THEN today.day ELSE 1

PrecedenceOf(explicit, inferred, resolved) ==
    /\ IsSome(explicit) => resolved = explicit
    /\ (~IsSome(explicit) /\ IsSome(inferred)) => resolved = inferred

SourcePrecedence ==
    Resolved =>
        /\ PrecedenceOf(cli.year, optional_params.year, args.year)
        /\ PrecedenceOf(cli.day, optional_params.day, args.day)
        /\ PrecedenceOf(cli.language, optional_params.language, args.language)
        /\ (~IsSome(cli.year) /\ ~IsSome(optional_params.year))
              => args.year = Some(ExpectedDefaultYear)
        /\ (~IsSome(cli.day) /\ ~IsSome(optional_params.day))
              => args.day = Some(ExpectedDefaultDay)
        /\ (~IsSome(cli.language) /\ ~IsSome(optional_params.language))
              => args.language = None
        /\ IsSome(args.year) /\ IsSome(args.day)

\* an explicit day beside a different inferred one, an inferred year and no
\* explicit one, and no language from either source
SourcePrecedenceWitness ==
    /\ pc = "done"
    /\ IsSome(cli.day) /\ IsSome(optional_params.day) /\ cli.day # optional_params.day
    /\ ~IsSome(cli.year) /\ IsSome(optional_params.year)
    /\ optional_params.year # Some(ExpectedDefaultYear)
    /\ ~IsSome(cli.language) /\ ~IsSome(optional_params.language)

\* C10: resolved day range. Whatever its source, the day held by Args after
\* Args::build, and rendered by Config::build, is in 1..=25.
ResolvedDayInRange ==
    Resolved => (IsSome(args.day) /\ Unwrap(args.day) \in 1..25)

\* the texts the specification gives for the values, written out
FourDigits(y) ==
    <<Digits[(y \div 1000) + 1], Digits[((y \div 100) % 10) + 1],
      Digits[((y \div 10) % 10) + 1], Digits[(y % 10) + 1]>>

TwoDigits(d) == <<Digits[(d \div 10) + 1], Digits[(d % 10) + 1]>>

LowercaseToken(lang) ==
    CASE lang = "Rust"   -> <<"r", "u", "s", "t">>
      [] lang = "CSharp" -> <<"c", "s", "h", "a", "r", "p">>
      [] lang = "Java"   -> <<"j", "a", "v", "a">>
      [] lang = "Python" -> <<"p", "y", "t", "h", "o", "n">>

EndToEndPath(y, d, lang) ==
    Code \o <<"/">> \o FourDigits(y) \o <<"/", "d", "a", "y">> \o TwoDigits(d)
         \o <<"/">> \o LowercaseToken(lang)

\* C5: end to end with padded day. For code/{{year}}/day{{pad day}}/{{language}}
\* and every year, day in 1..=25 and language, Config::build renders
\* code/<year>/day<two-digit day>/<lowercase language>, and extraction from
\* exactly that path gives the same year, day and language back.
EndToEnd ==
    (template_path = EndToEndTemplate /\ FullySpecified(args)) =>
        /\ pc # "error"
        /\ pc \in {"done", "reloaded"} =>
              project_path = EndToEndPath(Unwrap(args.year), Unwrap(args.day),
                                          Unwrap(args.language))
        /\ pc = "reloaded" => optional_params = args

\* 2024, 3, rust gives code/2024/day03/rust, read back as 2024, 3, rust
EndToEndWitness ==
    /\ pc = "reloaded"
    /\ template_path = EndToEndTemplate
    /\ args = [year |-> Some(2024), day |-> Some(3), language |-> Some("Rust")]
    /\ project_path = Code \o <<"/", "2", "0", "2", "4", "/", "d", "a", "y", "0", "3",
                                "/", "r", "u", "s", "t">>
    /\ optional_params = args

\* the value texts that are valid where the prefix q of a template has a marker
ValidTexts(q, v) ==
    /\ \A i \in PlacesOf(q, "day") :
          IF MarkerPad(q[i]) THEN v.day \in {<<"0", "5">>, <<"1", "2">>}
          ELSE v.day \in {<<"5">>, <<"1", "2">>}
    /\ v.language = <<"r", "u", "s", "t">>

\* the values of the placeholders of q, every other placeholder absent
ValuesOf(q, v) ==
    [year |-> IF PlacesOf(q, "year") # {} THEN Some(DecValue(v.year)) ELSE None,
     day |-> IF PlacesOf(q, "day") # {} THEN Some(DecValue(v.day)) ELSE None,
     language |-> IF PlacesOf(q, "language") # {}
                  THEN Some(CHOOSE l \in AllLanguages :
                                LowercaseToken(l) = to_lowercase(v.language))
                  ELSE None]

PrefixesAtMarkers(t) == {SubSeq(t, 1, k) : k \in MarkerPlaces(t)}

\* C2: partial-prefix matching. A candidate made of the template's text up
\* to and including its k-th placeholder, with valid values, extracts
\* exactly those k values and leaves the later placeholders absent,
\* whatever the order of the placeholders; projects/{{year}}/{{day}}-{{language}}
\* with projects/<year>/05 gives the year, day 5 and no language.
PartialPrefix ==
    (Loaded /\ CanonicalOnly(template_path) /\ AtMostOnce(template_path)) =>
        /\ \A q \in PrefixesAtMarkers(template_path), v \in ValueTexts :
              (cwd = Fill(q, v) /\ ValidTexts(q, v)) => optional_params = ValuesOf(q, v)
        /\ (template_path = ProjectsTemplate
              /\ cwd = <<"p", "/", "2", "0", "2", "2", "/", "0", "5">>)
              => optional_params = [year |-> Some(2022), day |-> Some(5), language |-> None]

\* C3: day boundary on extraction. With a plain {{day}} marker, a candidate
\* whose numeral at the day position is 26 does not match the day group:
\* the extracted day is absent.
DayBoundary ==
    (Loaded /\ CanonicalOnly(template_path) /\ AtMostOnce(template_path)) =>
        \A q \in Prefixes(template_path), v \in ValueTexts :
            (/\ Contains(q, "{{day}}")
             /\ v.day = <<"2", "6">>
             /\ cwd = Fill(q, v)) => optional_params.day = None

\* the longest text a value takes in a directory name
MaxValueWidth == 6

\* s holds, from pos on, the literal text of items i..n of t, each marker
\* standing for some text of 1..MaxValueWidth characters
RECURSIVE AlignFrom(_, _, _, _, _)
AlignFrom(t, i, n, s, pos) ==
    IF i > n THEN TRUE
    ELSE IF t[i] \in MarkerTexts
    THEN \E w \in 1..MaxValueWidth :
            pos + w - 1 <= Len(s) /\ AlignFrom(t, i + 1, n, s, pos + w)
    ELSE pos <= Len(s) /\ s[pos] = t[i] /\ AlignFrom(t, i + 1, n, s, pos + 1)

LiteralTextBefore(t, n, s) == \E start \in 1..Len(s) : AlignFrom(t, 1, n, s, start)

IsMeta(c) == c \in RegexMeta

ArchiveDir ==
    <<"a", "r", "c", "h", "i", "v", "e", " ", "(", "2", "0", "2", "2", ")", "/", "5">>

ArchiveDirNoParen ==
    <<"a", "r", "c", "h", "i", "v", "e", " ", "2", "0", "2", "2", ")", "/", "5">>

\* C4: escaping correctness. For a template with regex meta characters in
\* its literal text the pattern compiles; a placeholder is extracted only
\* from a candidate that holds the literal text before its marker character
\* for character; Config::build leaves the meta characters as they are;
\* archive ({{year}})/{{day}} extracts year and day from 'archive (2022)/5'
\* and nothing once the parenthesis is missing.
EscapingCorrect ==
    (CanonicalOnly(template_path) /\ AtMostOnce(template_path)) =>
        /\ ~LoadFailed
        /\ pc \in {"args_build", "reloaded"} =>
              \A name \in {"year", "day", "language"} :
                  IsSome(optional_params[name]) =>
                      \A n \in PlacesOf(template_path, name) :
                          LiteralTextBefore(template_path, n, cwd)
        /\ pc \in {"done", "reloaded"} =>
              SelectSeq(project_path, IsMeta) = SelectSeq(template_path, IsMeta)
        /\ (Loaded /\ template_path = ArchiveTemplate /\ cwd = ArchiveDir)
              => optional_params = [year |-> Some(2022), day |-> Some(5), language |-> None]
        /\ (Loaded /\ template_path = ArchiveTemplate /\ cwd = ArchiveDirNoParen)
              => optional_params = NoParams

EscapingCorrectWitness ==
    /\ pc = "done"
    /\ template_path = ArchiveTemplate
    /\ cwd = ArchiveDir
    /\ optional_params.year = Some(2022) /\ optional_params.day = Some(5)
    /\ SelectSeq(project_path, IsMeta) = <<"(", ")">>

CanonicalForm(m) ==
    CASE MarkerName(m) = "year" -> "{{year}}"
      [] MarkerName(m) = "language" -> "{{language}}"
      [] MarkerPad(m) -> "{{pad day}}"
      [] OTHER -> "{{day}}"

RECURSIVE CanonicalTemplate(_)
CanonicalTemplate(t) ==
    IF Len(t) = 0 THEN <<>>
    ELSE <<IF Head(t) \in MarkerTexts THEN CanonicalForm(Head(t)) ELSE Head(t)>>
            \o CanonicalTemplate(Tail(t))

\* C6: whitespace inside the marker delimiters is insignificant. A template
\* and the same template with its markers written without extra whitespace
\* load with the same outcome, extract the same values from every
\* candidate and render the same path.
WhitespaceInsignificant ==
    LET canonical == build_pattern(CanonicalTemplate(template_path)) IN
    /\ LoadFailed => ~Regex_new_ok(canonical)
    /\ Loaded => (Regex_new_ok(canonical) /\ optional_params = extract(canonical, cwd))
    /\ pc = "done" =>
          project_path = Config_build(CanonicalTemplate(template_path), args).path

\* C7: render outcome is all-or-error. Config::build either fails naming a
\* placeholder whose marker is in the template and whose value is absent,
\* or succeeds with a path that holds no marker.
RenderAllOrError ==
    /\ pc = "done" => MarkerPlaces(project_path) = {}
    /\ BuildFailed =>
          \E name \in {"year", "day", "language"} :
              /\ error = "failed to find '" \o name \o "' in template path"
              /\ PlacesOf(template_path, name) # {}
              /\ ~IsSome(args[name])

HasSubSeq(t, sub) ==
    \E i \in 1..(Len(t) - Len(sub) + 1) : SubSeq(t, i, i + Len(sub) - 1) = sub

\* C8: malformed templates fail at compilation. A template that uses the
\* padded form on year or language makes Config::load fail, before any
\* extraction or rendering.
MalformedTemplateFails ==
    (HasSubSeq(template_path, PadYear) \/ HasSubSeq(template_path, PadLanguage))
        => (pc \in {"parse", "load"} \/ LoadFailed)

\* the candidate spelled with the language token in lowercase
LowercaseSpelling(t, v) == Fill(t, [v EXCEPT !.language = to_lowercase(@)])

\* C11: language extraction is case-insensitive. For a template of
\* canonical markers with one {{language}} marker, a candidate that spells
\* a registered token in any mix of case at the language position extracts
\* what the lowercase spelling extracts, and that is the language itself
\* when the template is the language marker alone.
LanguageCaseInsensitive ==
    (/\ Loaded
     /\ CanonicalOnly(template_path) /\ AtMostOnce(template_path)
     /\ PlacesOf(template_path, "language") # {})
        => \A v \in ValueTexts :
              cwd = Fill(template_path, v) =>
                  /\ optional_params.language
                        = extract(pattern, LowercaseSpelling(template_path, v)).language
                  /\ template_path = <<"{{language}}">>
                        => optional_params.language = Language_from_str(v.language)

\* the text of one value in the place of one marker, padded as that marker asks
OccurrenceText(marker, a) ==
    CASE MarkerName(marker) = "year" -> int_to_string(Unwrap(a.year))
      [] MarkerName(marker) = "day" ->
            IF MarkerPad(marker) THEN TwoDigits(Unwrap(a.day))
            ELSE int_to_string(Unwrap(a.day))
      [] OTHER -> Language_to_string(Unwrap(a.language))

\* the template with every marker whose value is present replaced on its own
RECURSIVE RenderPerOccurrence(_, _)
RenderPerOccurrence(t, a) ==
    IF Len(t) = 0 THEN <<>>
    ELSE (IF Head(t) \in MarkerTexts /\ IsSome(a[MarkerName(Head(t))])
          THEN OccurrenceText(Head(t), a) ELSE <<Head(t)>>)
            \o RenderPerOccurrence(Tail(t), a)

BothDayForms(t) ==
    /\ \E i \in PlacesOf(t, "day") : MarkerPad(t[i])
    /\ \E i \in PlacesOf(t, "day") : ~MarkerPad(t[i])

\* C12: padding is applied per occurrence. For a template that holds both a
\* {{day}} and a {{pad day}} marker, Config::build puts the day's decimal
\* text in place of each plain marker and the day padded with 0 to two
\* digits in place of each padded marker.
PaddingPerOccurrence ==
    (pc = "done" /\ BothDayForms(template_path) /\ IsSome(args.day))
        => project_path = RenderPerOccurrence(template_path, args)

\* the same marker is written more than once in the template
RepeatsMarker(t) == \E i, j \in MarkerPlaces(t) : i # j /\ t[i] = t[j]

\* the value text at the last place a repeated placeholder is written
ExtractedValue(name, v) ==
    IF name = "language" THEN Language_from_str(v.language)
    ELSE Some(DecValue(v[name]))

\* C13: repeated placeholders. For a template of canonical markers in which
\* a marker occurs more than once, Config::load succeeds with a pattern
\* that compiles, a candidate that fills the whole template extracts the
\* value written at the repeated placeholder, and Config::build leaves no
\* occurrence of a marker whose value is present.
RepeatedPlaceholders ==
    (CanonicalOnly(template_path) /\ RepeatsMarker(template_path)) =>
        /\ ~LoadFailed
        /\ pc \notin {"parse", "load"} => Regex_new_ok(pattern)
        /\ Loaded =>
              \A v \in ValueTexts :
                  (cwd = Fill(template_path, v) /\ ValidTexts(template_path, v))
                      => \A i, j \in MarkerPlaces(template_path) :
                            (i # j /\ template_path[i] = template_path[j])
                                => optional_params[MarkerName(template_path[i])]
                                      = ExtractedValue(MarkerName(template_path[i]), v)
        /\ pc = "done" =>
              \A i \in MarkerPlaces(project_path) :
                  ~IsSome(args[MarkerName(project_path[i])])

====
